---- MODULE Spec2Model ----
(***************************************************************************)
(* A model of bo_nalog_client.client.NalogClient: the request gate         *)
(* (_wait_for_delay), the two HTTP operations built on it, the pure        *)
(* organization resolver and the pure report extractor.                    *)
(*                                                                         *)
(* Text is a sequence of one-character strings.  JSON values are tagged    *)
(* records: Null, Missing (key absent), Str(s), IntV(n), BoolV(b), FloatV, *)
(* BigInt, Arr(items).  Time is counted in ticks of half a second.         *)
(***************************************************************************)
EXTENDS Integers, Sequences, FiniteSets, TLC

VARIABLES
    now,                \* asyncio.get_event_loop().time()
    last_request_time,  \* self._last_request_time
    lock_owner,         \* holder of self._request_lock (0: unlocked)
    lock_waiters,       \* FIFO of tasks blocked in self._request_lock.acquire()
    pc,                 \* position of every task in its coroutine
    op,                 \* the public coroutine every task runs
    frame,              \* locals of every task inside _wait_for_delay
    search_response,    \* what the search endpoint answers to every task
    outcome,            \* how every task's coroutine ended
    call,               \* the pure function applied and its arguments
    ret                 \* what that function returned or raised

vars == <<now, last_request_time, lock_owner, lock_waiters, pc, op, frame,
          search_response, outcome, call, ret>>

gate_vars == <<now, last_request_time, lock_owner, lock_waiters, pc, op, frame,
               search_response, outcome>>

pure_vars == <<call, ret>>

----------------------------------------------------------------------------
(* Bounds of the model *)

\* longest text drawn for a query or a shortName
MaxLen == 4

\* longest content page drawn for a search response
MaxContent == 6

\* largest totalElements drawn for a search response
MaxTotal == 7

\* longest list of reports drawn for _latest_report
MaxReports == 3

\* longest typeCorrections drawn for _best_correction
MaxCorrections == 3

\* number of tasks that call the client concurrently
NTasks == 2

\* the clock runs freely for this many ticks past max_delay, and further
\* only to end a sleep
MaxTime == 2

\* number of calls of _wait_for_delay every task makes on its own
MaxCalls == 2

----------------------------------------------------------------------------
(* JSON values *)

Null == [t |-> "null"]

Missing == [t |-> "missing"]

\* a JSON number with a fraction (a Python float), here 2024.5
FloatV == [t |-> "float"]

\* a JSON integer too large for a float (10**400, say)
BigInt == [t |-> "bigint"]

\* JSON true or false (in Python an int: True == 1)
BoolV(b) == [t |-> "bool", b |-> b]

\* a JSON array
Arr(items) == [t |-> "list", items |-> items]

\* an array where a scalar is expected, here []
ListV == Arr(<<>>)

Str(s) == [t |-> "str", s |-> s]

IntV(n) == [t |-> "int", v |-> n]

\* all texts of length at most n over the characters cs
Texts(cs, n) == UNION {[1..k -> cs] : k \in 0..n}

----------------------------------------------------------------------------
(* String cleaning helpers *)

\* the Latin and Cyrillic letters of the model, with their lower-case forms;
\* "ZHE"/"zhe" stand for the Cyrillic capital and small letter zhe
LowerOf ==
    [c \in {"g", "t", "l", "b", "G", "T", "B", "zhe", "ZHE"} |->
        CASE c = "G" -> "g"
          [] c = "T" -> "t"
          [] c = "B" -> "b"
          [] c = "ZHE" -> "zhe"
          [] OTHER -> c]

IsLetter(c) == c \in DOMAIN LowerOf

\* html.entities.html5 restricted to the names that can be written with the
\* characters of the model; "~" stands for a decoded symbol that is neither
\* a letter nor markup
Html5 ==
    [n \in {<<"g", "t">>, <<"g", "t", ";">>, <<"G", "T">>, <<"G", "T", ";">>,
            <<"l", "t">>, <<"l", "t", ";">>,
            <<"g", "g", ";">>, <<"g", "g", "g", ";">>, <<"G", "g", ";">>,
            <<"G", "t", ";">>, <<"g", "l", ";">>, <<"l", "g", ";">>,
            <<"l", "l", ";">>} |->
        IF n \in {<<"g", "t">>, <<"g", "t", ";">>, <<"G", "T">>, <<"G", "T", ";">>}
        THEN <<">">>
        ELSE IF n \in {<<"l", "t">>, <<"l", "t", ";">>} THEN <<"<">>
        ELSE <<"~">>]

\* a character html.unescape accepts inside an entity name: [^\t\n\f <&#;]
IsNameChar(c) == c \notin {" ", "<", "&", "#", ";"}

\* number of consecutive name characters of s from position i on
RECURSIVE NameRun(_, _)
NameRun(s, i) ==
    IF i > Len(s) \/ ~IsNameChar(s[i]) THEN 0 ELSE 1 + NameRun(s, i + 1)

\* html._replace_charref for a named reference n (the text after "&")
ReplaceCharref(n) ==
    IF n \in DOMAIN Html5 THEN Html5[n]
    ELSE LET xs == {x \in 2..(Len(n) - 1) : SubSeq(n, 1, x) \in DOMAIN Html5}
         IN  IF xs = {} THEN <<"&">> \o n
             ELSE LET x == CHOOSE y \in xs : \A z \in xs : z <= y
                  IN  Html5[SubSeq(n, 1, x)] \o SubSeq(n, x + 1, Len(n))

\* html.unescape: every "&name" or "&name;" is replaced, left to right
RECURSIVE UnescapeFrom(_, _)
UnescapeFrom(s, i) ==
    IF i > Len(s) THEN <<>>
    ELSE IF s[i] = "&" /\ NameRun(s, i + 1) > 0
    THEN LET r == NameRun(s, i + 1)
             semi == i + r + 1 <= Len(s) /\ s[i + r + 1] = ";"
             last == IF semi THEN i + r + 1 ELSE i + r
         IN  ReplaceCharref(SubSeq(s, i + 1, last)) \o UnescapeFrom(s, last + 1)
    ELSE <<s[i]>> \o UnescapeFrom(s, i + 1)

unescape(s) == UnescapeFrom(s, 1)

\* positions j > i of s that hold ">"
ClosersAfter(s, i) == {j \in (i + 1)..Len(s) : s[j] = ">"}

\* re.sub(r'<[^>]+>', '', s): leftmost non-overlapping tags are removed
RECURSIVE StripTagsFrom(_, _)
StripTagsFrom(s, i) ==
    IF i > Len(s) THEN <<>>
    ELSE IF s[i] = "<" /\ ClosersAfter(s, i) # {}
    THEN LET j == CHOOSE k \in ClosersAfter(s, i) :
                      \A m \in ClosersAfter(s, i) : k <= m
         IN  IF j >= i + 2 THEN StripTagsFrom(s, j + 1)
             ELSE <<s[i]>> \o StripTagsFrom(s, i + 1)
    ELSE <<s[i]>> \o StripTagsFrom(s, i + 1)

\* a value Python takes as false where the code tests "if not text"
Falsy(v) ==
    \/ v.t \in {"null", "missing"}
    \/ v.t = "str" /\ v.s = <<>>
    \/ v.t = "int" /\ v.v = 0
    \/ v.t = "bool" /\ ~v.b
    \/ v.t = "list" /\ v.items = <<>>

\* NalogClient._clean_html
_clean_html(text) ==
    IF Falsy(text) THEN <<>> ELSE StripTagsFrom(unescape(text.s), 1)

RECURSIVE LettersLower(_)
LettersLower(s) ==
    IF s = <<>> THEN <<>>
    ELSE (IF IsLetter(Head(s)) THEN <<LowerOf[Head(s)]>> ELSE <<>>)
         \o LettersLower(Tail(s))

\* NalogClient._clean_non_letters; its argument is a text, or Null
_clean_non_letters(text) ==
    IF Falsy(text) THEN <<>> ELSE LettersLower(text.s)

----------------------------------------------------------------------------
(* Organization resolver *)

\* "for org in content[:5]", "if total_elements > 5"
SampleLimit == 5

\* an Organization of the search response: the fields the client reads
Org(id, inn, shortName) == [id |-> id, inn |-> inn, shortName |-> shortName]

\* a search response: the fields the client reads
Response(content, total) == [content |-> content, totalElements |-> total]

\* org.get('shortName', '')
ShortNameOf(org) ==
    IF org.shortName = Missing THEN Str(<<>>) ELSE org.shortName

\* the text the query is compared by: self._clean_non_letters(query)
QueryCleaned(query) == _clean_non_letters(query)

\* the text a candidate is compared by:
\* self._clean_non_letters(self._clean_html(short_name))
ShortNameCleaned(org) == _clean_non_letters(Str(_clean_html(ShortNameOf(org))))

\* indexes of the candidates of content that the loop of lines 252-261 accepts
Matches(content, query) ==
    {i \in 1..Len(content) : ShortNameCleaned(content[i]) = QueryCleaned(query)}

\* org_details listing every candidate of the page
OrgDetails_all(content) ==
    [i \in 1..Len(content) |->
        [id |-> content[i].id, inn |-> content[i].inn,
         shortName |-> content[i].shortName]]

\* the lines of the error message, one (id, inn, shortName) per candidate
OrgDetails(content) ==
    [i \in 1..(IF Len(content) < SampleLimit THEN Len(content) ELSE SampleLimit) |->
        [id |-> content[i].id, inn |-> content[i].inn,
         shortName |-> content[i].shortName]]

\* raise AmbiguousSearchError(error_msg)
Ambiguous(content, total) ==
    [kind |-> "AmbiguousSearchError",
     total |-> total,
     details |-> OrgDetails(content),
     more |-> IF total > SampleLimit THEN total - SampleLimit ELSE 0]

\* resolve_org_from_search returning the last exact match, and taking an empty
\* page for "nothing found"
resolve_org_from_search_last(response, query) ==
    LET content == response.content
        total_elements == response.totalElements
    IN  IF content = <<>>
        THEN [kind |-> "ValueError", msg |-> "No organizations found"]
        ELSE IF total_elements > 1
        THEN IF ~Falsy(query) /\ Matches(content, query) # {}
             THEN [kind |-> "return",
                   value |-> content[CHOOSE i \in Matches(content, query) :
                                        \A j \in Matches(content, query) : i >= j]]
             ELSE Ambiguous(content, total_elements)
        ELSE [kind |-> "return", value |-> content[1]]

\* NalogClient.resolve_org_from_search
resolve_org_from_search(response, query) ==
    LET content == response.content
        total_elements == response.totalElements
    IN  IF total_elements = 0
        THEN [kind |-> "ValueError", msg |-> "No organizations found"]
        ELSE IF total_elements > 1
        THEN IF ~Falsy(query) /\ Matches(content, query) # {}
             THEN [kind |-> "return",
                   value |-> content[CHOOSE i \in Matches(content, query) :
                                        \A j \in Matches(content, query) : i <= j]]
             ELSE Ambiguous(content, total_elements)
        ELSE IF content = <<>>
        THEN [kind |-> "IndexError"]
        ELSE [kind |-> "return", value |-> content[1]]

\* resolve_org_id_from_search without the test for a missing id
resolve_org_id_from_search_nocheck(response, query) ==
    LET r == resolve_org_from_search(response, query)
    IN  IF r.kind # "return" THEN r
        ELSE [kind |-> "return",
              value |-> IF r.value.id = Null \/ r.value.id = Missing
                        THEN -1 ELSE r.value.id.v]

\* NalogClient.resolve_org_id_from_search
resolve_org_id_from_search(response, query) ==
    LET r == resolve_org_from_search(response, query)
    IN  IF r.kind # "return" THEN r
        ELSE IF r.value.id = Null \/ r.value.id = Missing
        THEN [kind |-> "ValueError", msg |-> "Organization ID not found"]
        ELSE [kind |-> "return", value |-> r.value.id.v]

----------------------------------------------------------------------------
(* Parsing helpers *)

DigitVal ==
    [c \in {"0", "1", "2", "3", "4", "5", "6", "7", "8", "9"} |->
        CASE c = "0" -> 0 [] c = "1" -> 1 [] c = "2" -> 2 [] c = "3" -> 3
          [] c = "4" -> 4 [] c = "5" -> 5 [] c = "6" -> 6 [] c = "7" -> 7
          [] c = "8" -> 8 [] c = "9" -> 9]

IsDigit(c) == c \in DOMAIN DigitVal

DigitChar(d) == CHOOSE c \in DOMAIN DigitVal : DigitVal[c] = d

AllDigits(s) == \A i \in 1..Len(s) : IsDigit(s[i])

\* the number a text of digits writes
RECURSIVE DigitsValue(_)
DigitsValue(s) ==
    IF s = <<>> THEN 0
    ELSE 10 * DigitsValue(SubSeq(s, 1, Len(s) - 1)) + DigitVal[s[Len(s)]]

\* the digits of a natural number
RECURSIVE NatText(_)
NatText(n) ==
    IF n < 10 THEN <<DigitChar(n)>>
    ELSE NatText(n \div 10) \o <<DigitChar(n % 10)>>

\* str.strip() as int() and float() apply it to their argument
RECURSIVE Strip(_)
Strip(s) ==
    IF s # <<>> /\ Head(s) = " " THEN Strip(Tail(s))
    ELSE IF s # <<>> /\ s[Len(s)] = " " THEN Strip(SubSeq(s, 1, Len(s) - 1))
    ELSE s

HasSign(s) == s # <<>> /\ Head(s) \in {"-", "+"}

Unsigned(s) == IF HasSign(s) THEN Tail(s) ELSE s

\* str(v) for a JSON value
PyStr(v) ==
    CASE v.t = "str" -> v.s
      [] v.t = "int" -> IF v.v < 0 THEN <<"-">> \o NatText(-v.v) ELSE NatText(v.v)
      [] v.t = "null" -> <<"N", "o", "n", "e">>
      [] v.t = "float" -> <<"2", "0", "2", "4", ".", "5">>
      [] v.t = "bool" -> IF v.b THEN <<"T", "r", "u", "e">>
                         ELSE <<"F", "a", "l", "s", "e">>
      [] v.t = "list" -> <<"[", "]">>

\* int(s) for a text: [ok |-> FALSE] stands for ValueError
PyInt(s) ==
    LET b == Unsigned(Strip(s))
    IN  IF b # <<>> /\ AllDigits(b)
        THEN [ok |-> TRUE,
              v |-> IF HasSign(Strip(s)) /\ Head(Strip(s)) = "-"
                    THEN -DigitsValue(b) ELSE DigitsValue(b)]
        ELSE [ok |-> FALSE, v |-> 0]

\* a float: sign, whole part and the digits of its fraction
Num(neg, whole, frac) == [t |-> "num", neg |-> neg, whole |-> whole, frac |-> frac]

RECURSIVE DropTrailingZeros(_)
DropTrailingZeros(s) ==
    IF s # <<>> /\ s[Len(s)] = "0"
    THEN DropTrailingZeros(SubSeq(s, 1, Len(s) - 1)) ELSE s

\* float(s) for a text of digits, sign, point and blanks
PyFloat(s) ==
    LET st == Strip(s)
        b == Unsigned(st)
        dots == {i \in 1..Len(b) : b[i] = "."}
        dot == IF dots = {} THEN Len(b) + 1 ELSE CHOOSE i \in dots : TRUE
        whole == SubSeq(b, 1, dot - 1)
        frac == SubSeq(b, dot + 1, Len(b))
    IN  IF /\ Cardinality(dots) <= 1
           /\ AllDigits(whole) /\ AllDigits(frac)
           /\ Len(whole) + Len(frac) > 0
        THEN [ok |-> TRUE,
              v |-> Num(HasSign(st) /\ Head(st) = "-", DigitsValue(whole),
                        DropTrailingZeros(frac))]
        ELSE [ok |-> FALSE, v |-> Null]

\* NalogClient._to_num: [kind |-> "return", value |-> a Num or Null], or the
\* exception float() raises
_to_num(v) ==
    IF (v.t = "str" /\ v.s = <<>>) \/ v.t \in {"null", "missing"}
    THEN [kind |-> "return", value |-> Null]
    ELSE IF v.t = "int"
    THEN [kind |-> "return", value |-> Num(v.v < 0, IF v.v < 0 THEN -v.v ELSE v.v, <<>>)]
    ELSE IF v.t = "bool"
    THEN [kind |-> "return", value |-> Num(FALSE, IF v.b THEN 1 ELSE 0, <<>>)]
    ELSE IF v.t = "float"
    THEN [kind |-> "return", value |-> Num(FALSE, 2024, <<"5">>)]
    ELSE IF v.t = "bigint"
    THEN [kind |-> "OverflowError"]
    ELSE IF v.t = "str"
    THEN [kind |-> "return",
          value |-> IF PyFloat(v.s).ok THEN PyFloat(v.s).v ELSE Null]
    ELSE [kind |-> "return", value |-> Null]

\* s.split("-")
RECURSIVE Split(_)
Split(s) ==
    LET ds == {i \in 1..Len(s) : s[i] = "-"}
    IN  IF ds = {} THEN <<s>>
        ELSE LET d == CHOOSE i \in ds : \A j \in ds : i <= j
             IN  <<SubSeq(s, 1, d - 1)>> \o Split(SubSeq(s, d + 1, Len(s)))

IsLeap(y) == y % 4 = 0 /\ (y % 100 # 0 \/ y % 400 = 0)

DaysInMonth(y, m) ==
    IF m = 2 THEN (IF IsLeap(y) THEN 29 ELSE 28)
    ELSE IF m \in {4, 6, 9, 11} THEN 30 ELSE 31

\* datetime.date(y, m, d) accepts the triple
ValidDate(y, m, d) ==
    /\ 1 <= y /\ y <= 9999
    /\ 1 <= m /\ m <= 12
    /\ 1 <= d /\ d <= DaysInMonth(y, m)

Date(y, m, d) == <<y, m, d>>

\* date.min
DateMin == Date(1, 1, 1)

NoDate == <<>>

\* NalogClient._to_date: a Date, or NoDate for None
_to_date(s) ==
    IF Falsy(s) \/ s.t # "str" THEN NoDate
    ELSE LET parts == Split(s.s)
         IN  IF Len(parts) # 3 THEN NoDate
             ELSE LET y == PyInt(parts[1])
                      m == PyInt(parts[2])
                      d == PyInt(parts[3])
                  IN  IF y.ok /\ m.ok /\ d.ok /\ ValidDate(y.v, m.v, d.v)
                      THEN Date(y.v, m.v, d.v) ELSE NoDate

----------------------------------------------------------------------------
(* Report extractor *)

\* "return -10**9"
Sentinel == -1000000000

\* financialResult: the two line items the client reads
FinancialResult(c2110, c2400) ==
    [t |-> "dict", current2110 |-> c2110, current2400 |-> c2400]

\* a correction; extra tells whether the object holds keys the client does
\* not read
Correction(ver, fr, extra) ==
    [t |-> "dict", correctionVersion |-> ver, financialResult |-> fr,
     extra |-> extra]

\* an element of typeCorrections that is an object
Wrapper(corr) == [t |-> "dict", correction |-> corr]

\* a report; extra as above
Report(period, bfoDate, corrections, extra) ==
    [t |-> "dict", period |-> period, actualBfoDate |-> bfoDate,
     typeCorrections |-> corrections, extra |-> extra]

\* "not corr": None, or an object without keys
NoCorrection(corr) ==
    \/ corr.t \in {"null", "missing"}
    \/ /\ corr.correctionVersion = Missing
       /\ corr.financialResult = Missing
       /\ ~corr.extra

\* "not rpt" for a report object
EmptyReport(r) ==
    /\ r.period = Missing
    /\ r.actualBfoDate = Missing
    /\ r.typeCorrections = Missing
    /\ ~r.extra

\* "type_corrections or []", "reports or []"
ItemsOf(v) == IF v.t = "list" THEN v.items ELSE <<>>

\* (tc or {}).get("correction")
CorrectionOf(tc) == IF tc.t = "dict" THEN tc.correction ELSE Missing

\* isinstance(ver, int): bool is a subclass of int
IsInt(ver) == ver.t \in {"int", "bool"}

IntOf(ver) == IF ver.t = "int" THEN ver.v ELSE IF ver.b THEN 1 ELSE 0

\* one turn of the loop of _best_correction on state st = (best, best_ver)
BestStep(st, tc) ==
    LET corr == CorrectionOf(tc)
    IN  IF NoCorrection(corr) THEN st
        ELSE IF IsInt(corr.correctionVersion)
                /\ IntOf(corr.correctionVersion) >= st.best_ver
        THEN [best |-> corr, best_ver |-> IntOf(corr.correctionVersion)]
        ELSE IF st.best = Null
        THEN [best |-> corr, best_ver |-> st.best_ver]
        ELSE st

RECURSIVE BestLoop(_, _)
BestLoop(st, tcs) ==
    IF tcs = <<>> THEN st ELSE BestLoop(BestStep(st, Head(tcs)), Tail(tcs))

\* NalogClient._best_correction
_best_correction(type_corrections) ==
    BestLoop([best |-> Null, best_ver |-> -1], ItemsOf(type_corrections)).best

\* int(str(period)), the period defaulting to dflt when the key is absent
PeriodInt(r, dflt) ==
    PyInt(PyStr(IF r.period = Missing THEN dflt ELSE r.period))

\* key_by_period with an unparsable period counted as year 0
key_by_period_zero(r) ==
    IF PeriodInt(r, IntV(0)).ok THEN PeriodInt(r, IntV(0)).v ELSE 0

\* _latest_report.key_by_period
key_by_period(r) ==
    IF PeriodInt(r, IntV(0)).ok THEN PeriodInt(r, IntV(0)).v ELSE Sentinel

\* _latest_report.key_by_bfo
key_by_bfo(r) ==
    <<IF _to_date(r.actualBfoDate) = NoDate THEN DateMin
      ELSE _to_date(r.actualBfoDate),
      key_by_period(r)>>

\* d < e for dates
DateLess(d, e) ==
    \/ d[1] < e[1]
    \/ d[1] = e[1] /\ d[2] < e[2]
    \/ d[1] = e[1] /\ d[2] = e[2] /\ d[3] < e[3]

\* the order max() compares the keys of two reports by
KeyLess(a, b, prefer_bfo_date) ==
    IF prefer_bfo_date
    THEN \/ DateLess(key_by_bfo(a)[1], key_by_bfo(b)[1])
         \/ /\ key_by_bfo(a)[1] = key_by_bfo(b)[1]
            /\ key_by_bfo(a)[2] < key_by_bfo(b)[2]
    ELSE key_by_period(a) < key_by_period(b)

\* max(reps, key=...): one pass that keeps the first of the greatest
RECURSIVE MaxFrom(_, _, _, _)
MaxFrom(reps, i, best, prefer_bfo_date) ==
    IF i > Len(reps) THEN best
    ELSE MaxFrom(reps, i + 1,
                 IF KeyLess(reps[best], reps[i], prefer_bfo_date) THEN i ELSE best,
                 prefer_bfo_date)

\* NalogClient._latest_report: the chosen report, or Null for None
_latest_report(reports, prefer_bfo_date) ==
    LET reps == ItemsOf(reports)
    IN  IF reps = <<>> THEN Null
        ELSE reps[MaxFrom(reps, 2, 1, prefer_bfo_date)]

\* corr.get("financialResult", {}) or {}, then fr.get(key)
LineItem(corr, key) ==
    IF corr.financialResult.t # "dict" THEN Missing
    ELSE IF key = "current2110" THEN corr.financialResult.current2110
    ELSE corr.financialResult.current2400

\* NalogClient.extract_last_year_revenue_profit
extract_last_year_revenue_profit(payload, prefer_bfo_date) ==
    LET rpt == _latest_report(payload, prefer_bfo_date)
    IN  IF rpt = Null \/ EmptyReport(rpt)
        THEN [kind |-> "return", value |-> Null]
        ELSE IF ~PeriodInt(rpt, Str(<<"0">>)).ok
        THEN [kind |-> "ValueError"]
        ELSE LET year == PeriodInt(rpt, Str(<<"0">>)).v
                 corr == _best_correction(rpt.typeCorrections)
             IN  IF NoCorrection(corr)
                 THEN [kind |-> "return",
                       value |-> [year |-> year, revenue |-> Null, profit |-> Null]]
                 ELSE LET revenue == _to_num(LineItem(corr, "current2110"))
                          profit == _to_num(LineItem(corr, "current2400"))
                      IN  IF revenue.kind # "return" THEN revenue
                          ELSE IF profit.kind # "return" THEN profit
                          ELSE [kind |-> "return",
                                value |-> [year |-> year,
                                           revenue |-> revenue.value,
                                           profit |-> profit.value]]

----------------------------------------------------------------------------
(* The client after construction, before any task runs *)

Tasks == 1..NTasks

\* min_delay = 0.5 and max_delay = 2.0 seconds, in ticks of half a second
MinDelay == 1

MaxDelay == 4

\* the request the gate is passed for ("search" or "bfo"), the delay drawn in
\* _wait_for_delay, the time its sleep ends (current_time + wait_time) and
\* the number of passes the task has made
NoFrame == [phase |-> "none", delay |-> 0, wake |-> 0, passes |-> 0]


NoResponse == [status |-> "none"]

\* NalogClient.__post_init__: the lock is free, _last_request_time = 0.0
GateInit ==
    /\ last_request_time = 0
    /\ lock_owner = 0
    /\ lock_waiters = <<>>
    /\ pc = [i \in Tasks |-> "idle"]
    /\ op = [i \in Tasks |-> "none"]
    /\ frame = [i \in Tasks |-> NoFrame]
    /\ search_response = [i \in Tasks |-> NoResponse]
    /\ outcome = [i \in Tasks |-> [kind |-> "none"]]

NoCall == [fn |-> "none"]

Pending == [kind |-> "pending"]

----------------------------------------------------------------------------
(* The gate and the HTTP operations, run by concurrent tasks *)

\* the query every task passes
TaskQuery == Str(<<"g">>)

OrgWithId == Org(IntV(1), Str(<<"1">>), Str(<<"<", "b", ">", "G", "<", "/", "b", ">">>))

OrgWithoutId == Org(Null, Str(<<"3">>), Str(<<"t">>))

\* what the search endpoint may answer with status 2xx
SearchBodies ==
    {Response(<<>>, 0),
     Response(<<OrgWithId>>, 1),
     Response(<<OrgWithoutId>>, 1),
     Response(<<OrgWithoutId, OrgWithoutId>>, 2)}

\* what the report endpoint may answer with status 2xx
BfoBodies ==
    {Arr(<<Report(Str(<<"x">>), Missing, Missing, TRUE)>>),
     Arr(<<Report(Str(<<"2", "0", "2", "4">>), Missing,
                  Arr(<<Wrapper(Correction(IntV(0), FinancialResult(
                        Str(<<"5", "5", "0", "4", "9">>), Str(<<>>)), TRUE))>>),
                  TRUE)>>)}

Operations == {"search_organization", "fetch_bfo", "get_last_year_revenue_profit"}

InFlight(i) == pc[i] \in {"search_request", "bfo_request"}

\* PassGate that keeps the lock
PassGate_keeplock(i, ph, delay, waiters) ==
    /\ last_request_time' = now
    /\ lock_owner' = i
    /\ lock_waiters' = waiters
    /\ pc' = [pc EXCEPT ![i] = IF ph = "search" THEN "search_request"
                                ELSE "bfo_request"]
    /\ frame' = [frame EXCEPT ![i] =
                    [phase |-> ph, delay |-> 0, wake |-> 0,
                     passes |-> frame[i].passes + 1]]

\* lines 131-132 and the return to the caller: the time is recorded, the lock
\* is released, and the caller issues its request (client.get) at once
PassGate(i, ph, delay, waiters) ==
    /\ last_request_time' = now
    /\ lock_owner' = 0
    /\ lock_waiters' = waiters
    /\ pc' = [pc EXCEPT ![i] = IF ph = "search" THEN "search_request"
                                ELSE "bfo_request"]
    /\ frame' = [frame EXCEPT ![i] =
                    [phase |-> ph, delay |-> 0, wake |-> 0,
                     passes |-> frame[i].passes + 1]]

\* HoldLock without the sleep: the time is recorded whatever time has passed
HoldLock_nosleep(i, ph, delay, waiters) == PassGate(i, ph, delay, waiters)

\* lines 120-129 with the lock held: sleep for the rest of the delay, or pass
HoldLock(i, ph, delay, waiters) ==
    IF now - last_request_time < delay
    THEN /\ lock_owner' = i
         /\ lock_waiters' = waiters
         /\ pc' = [pc EXCEPT ![i] = "sleeping"]
         /\ frame' = [frame EXCEPT ![i] =
                         [phase |-> ph, delay |-> delay,
                          wake |-> now + (delay - (now - last_request_time)),
                          passes |-> frame[i].passes]]
         /\ UNCHANGED <<last_request_time>>
    ELSE PassGate(i, ph, delay, waiters)

\* a call of _wait_for_delay (line 119): the lock is taken when it is free
\* and nobody waits for it, otherwise the task queues for it
CallGate(i, ph) ==
    IF lock_owner = 0 /\ lock_waiters = <<>>
    THEN \E delay \in MinDelay..MaxDelay : HoldLock(i, ph, delay, <<>>)
    ELSE /\ lock_waiters' = Append(lock_waiters, i)
         /\ pc' = [pc EXCEPT ![i] = "waiting_lock"]
         /\ frame' = [frame EXCEPT ![i].phase = ph]
         /\ UNCHANGED <<last_request_time, lock_owner>>

\* a task calls a public coroutine, which calls _search_organizations
Start(i) ==
    /\ pc[i] = "idle"
    /\ \E o \in Operations : op' = [op EXCEPT ![i] = o]
    /\ CallGate(i, "search")
    /\ UNCHANGED <<now, search_response, outcome, pure_vars>>

\* the lock was released and the first waiter resumes inside the lock
GateWake(i) ==
    /\ pc[i] = "waiting_lock"
    /\ lock_owner = 0
    /\ lock_waiters # <<>> /\ Head(lock_waiters) = i
    /\ \E delay \in MinDelay..MaxDelay :
          HoldLock(i, frame[i].phase, delay, Tail(lock_waiters))
    /\ UNCHANGED <<now, op, search_response, outcome, pure_vars>>

\* asyncio.sleep(wait_time) returns, not before wait_time has passed
SleepDone(i) ==
    /\ pc[i] = "sleeping"
    /\ now >= frame[i].wake
    /\ PassGate(i, frame[i].phase, frame[i].delay, lock_waiters)
    /\ UNCHANGED <<now, op, search_response, outcome, pure_vars>>

\* the search request fails: transport error or non-2xx status
SearchFails(i) ==
    /\ pc[i] = "search_request"
    /\ search_response' = [search_response EXCEPT ![i] = [status |-> "error"]]
    /\ outcome' = [outcome EXCEPT ![i] = [kind |-> "HTTPStatusError"]]
    /\ pc' = [pc EXCEPT ![i] = "done"]
    /\ UNCHANGED <<now, last_request_time, lock_owner, lock_waiters, op, frame,
                   pure_vars>>

\* the search request returns; search_organization resolves the organization
\* and ends, fetch_bfo resolves its id and goes through the gate again
SearchReturns(i) ==
    /\ pc[i] = "search_request"
    /\ \E body \in SearchBodies :
          /\ search_response' =
                [search_response EXCEPT ![i] = [status |-> "ok", body |-> body]]
          /\ IF op[i] = "search_organization"
             THEN /\ outcome' = [outcome EXCEPT ![i] =
                                    resolve_org_from_search(body, TaskQuery)]
                  /\ pc' = [pc EXCEPT ![i] = "done"]
                  /\ UNCHANGED <<last_request_time, lock_owner, lock_waiters,
                                 frame>>
             ELSE IF resolve_org_id_from_search(body, TaskQuery).kind # "return"
             THEN /\ outcome' = [outcome EXCEPT ![i] =
                                    resolve_org_id_from_search(body, TaskQuery)]
                  /\ pc' = [pc EXCEPT ![i] = "done"]
                  /\ UNCHANGED <<last_request_time, lock_owner, lock_waiters,
                                 frame>>
             ELSE /\ CallGate(i, "bfo")
                  /\ UNCHANGED outcome
    /\ UNCHANGED <<now, op, pure_vars>>

\* the report request fails
BfoFails(i) ==
    /\ pc[i] = "bfo_request"
    /\ outcome' = [outcome EXCEPT ![i] = [kind |-> "HTTPStatusError"]]
    /\ pc' = [pc EXCEPT ![i] = "done"]
    /\ UNCHANGED <<now, last_request_time, lock_owner, lock_waiters, op, frame,
                   search_response, pure_vars>>

\* the report request returns; get_last_year_revenue_profit extracts
BfoReturns(i) ==
    /\ pc[i] = "bfo_request"
    /\ \E payload \in BfoBodies :
          outcome' = [outcome EXCEPT ![i] =
              IF op[i] = "fetch_bfo" THEN [kind |-> "return", value |-> payload]
              ELSE extract_last_year_revenue_profit(payload, FALSE)]
    /\ pc' = [pc EXCEPT ![i] = "done"]
    /\ UNCHANGED <<now, last_request_time, lock_owner, lock_waiters, op, frame,
                   search_response, pure_vars>>

\* the clock of the event loop advances
Tick ==
    /\ \/ now < MaxDelay + MaxTime
       \/ \E i \in Tasks : pc[i] = "sleeping" /\ now < frame[i].wake
    /\ now' = now + 1
    /\ UNCHANGED <<last_request_time, lock_owner, lock_waiters, pc, op, frame,
                   search_response, outcome, pure_vars>>

\* the monotonic clock of the event loop starts anywhere, below max_delay
\* or not
Init ==
    /\ now \in 0..MaxDelay
    /\ GateInit
    /\ call = NoCall
    /\ ret = Pending

Next ==
    \/ Tick
    \/ \E i \in Tasks :
          \/ Start(i)
          \/ GateWake(i)
          \/ SleepDone(i)
          \/ SearchFails(i)
          \/ SearchReturns(i)
          \/ BfoFails(i)
          \/ BfoReturns(i)

Spec == Init /\ [][Next]_vars

\* the event loop: the clock advances, so a sleep is finite; a task whose
\* sleep is over is resumed; the waiter the released lock woke is resumed
Fairness ==
    /\ WF_vars(Tick)
    /\ \A i \in Tasks : WF_vars(SleepDone(i)) /\ WF_vars(GateWake(i))

\* a task calls _wait_for_delay on its own, as _search_organizations and
\* fetch_bfo do before their requests
WaitForDelay(i) ==
    /\ pc[i] = "idle"
    /\ frame[i].passes < MaxCalls
    /\ CallGate(i, "search")
    /\ UNCHANGED <<now, op, search_response, outcome, pure_vars>>

\* _wait_for_delay has returned and its caller goes on; it may call again
Returned(i) ==
    /\ pc[i] = "search_request"
    /\ pc' = [pc EXCEPT ![i] = "idle"]
    /\ UNCHANGED <<now, last_request_time, lock_owner, lock_waiters, op, frame,
                   search_response, outcome, pure_vars>>

GateNext ==
    \/ Tick
    \/ \E i \in Tasks :
          \/ WaitForDelay(i)
          \/ GateWake(i)
          \/ SleepDone(i)
          \/ Returned(i)

\* the tasks call _wait_for_delay again and again, under the fair event loop
SpecLive == Init /\ [][GateNext]_vars /\ Fairness

----------------------------------------------------------------------------
(* The resolver applied to bounded search responses *)

\* the characters queries and shortNames are drawn from: texts with tags,
\* and texts with entities
TagChars == {"G", "<", ">"}

EntityChars == {"G", "T", "&"}

NameTexts == Texts(TagChars, MaxLen) \cup Texts(EntityChars, MaxLen)

\* a second candidate, so that a page has an order
OrgG == Org(IntV(2), Str(<<"2">>), Str(<<"g">>))

\* a third candidate, whose name holds no letter
OrgNoLetter == Org(IntV(3), Str(<<"3">>), Str(<<"7", ";">>))

\* pages of three candidates with every text as the first shortName
NameResponses ==
    {Response(<<Org(IntV(1), Str(<<"1">>), Str(s)), OrgG, OrgNoLetter>>, 3) :
        s \in NameTexts}

\* candidates for long pages: marked-up names, a Cyrillic name, no name, no id
OrgPool ==
    {Org(IntV(1), Str(<<"1">>), Str(<<"<", "b", ">", "G", "<", "/", "b", ">">>)),
     Org(Null, Str(<<"3">>), Str(<<"ZHE", "&", "l", "t", ";", "b", "&", "g", "t", ";">>)),
     Org(IntV(0), Null, Missing)}

PoolResponses ==
    {Response(c, n) : c \in Texts(OrgPool, MaxContent), n \in 0..MaxTotal}

PoolQueries ==
    {Null, Str(<<>>), Str(<<"g">>), Str(<<"zhe", "!">>), Str(<<"7", "7">>)}

\* the calls of one specification: fn applied to (response, query)
ResolveCall(f, r, q) == [fn |-> f, response |-> r, query |-> q]

ResolveInit ==
    /\ now = 0
    /\ GateInit
    /\ ret = Pending
    /\ \/ \E r \in NameResponses, s \in NameTexts :
            call = ResolveCall("resolve_org_from_search", r, Str(s))
       \/ \E r \in PoolResponses, q \in PoolQueries :
            call = ResolveCall("resolve_org_from_search", r, q)

ResolveOrg ==
    /\ call.fn = "resolve_org_from_search"
    /\ ret = Pending
    /\ ret' = resolve_org_from_search(call.response, call.query)
    /\ UNCHANGED <<gate_vars, call>>

ResolveNext == ResolveOrg

SpecResolve == ResolveInit /\ [][ResolveNext]_vars

----------------------------------------------------------------------------
(* Claims about the resolver *)

\* the normalization the specification describes for both sides: decode
\* entities and remove tags, then keep the letters, lower-cased
SpecNormalize(v) == _clean_non_letters(Str(_clean_html(v)))

Resolved == call.fn = "resolve_org_from_search" /\ ret # Pending

\* first index of content whose shortName, normalized by nameNorm, equals key
FirstEqual(content, key) ==
    LET hits == {i \in 1..Len(content) :
                    SpecNormalize(ShortNameOf(content[i])) = key}
    IN  IF hits = {} THEN 0 ELSE CHOOSE i \in hits : \A j \in hits : i <= j

\* C4 as stated: with totalElements > 1 and a supplied query, the first
\* candidate whose normalized shortName equals the normalized query is
\* returned, the query having gone through the same normalization as the
\* shortNames (entities decoded and tags removed, letters kept, lower-cased).
C4_IdenticalNormalization ==
    (/\ Resolved
     /\ call.response.totalElements > 1
     /\ ~Falsy(call.query)
     /\ FirstEqual(call.response.content, SpecNormalize(call.query)) # 0)
    => /\ ret.kind = "return"
       /\ ret.value = call.response.content[
              FirstEqual(call.response.content, SpecNormalize(call.query))]

\* C4 amended: the query is normalized by keeping its letters, lower-cased,
\* without decoding entities or removing tags; each shortName has its
\* entities decoded and tags removed first.  The first candidate of content
\* equal under these is returned.
C4_FirstExactMatch ==
    (/\ Resolved
     /\ call.response.totalElements > 1
     /\ ~Falsy(call.query)
     /\ FirstEqual(call.response.content, LettersLower(call.query.s)) # 0)
    => /\ ret.kind = "return"
       /\ ret.value = call.response.content[
              FirstEqual(call.response.content, LettersLower(call.query.s))]

\* two candidates match and the first of them, which is not the first of
\* the page, was returned; the query holds markup
C4_Witness ==
    /\ Resolved
    /\ call.response.totalElements > 1
    /\ ~Falsy(call.query)
    /\ ret.kind = "return"
    /\ LettersLower(call.query.s) # <<>>
    /\ \E i, j \in 1..Len(call.response.content) :
          /\ i < j
          /\ _clean_html(ShortNameOf(call.response.content[i]))
                # ShortNameOf(call.response.content[i]).s
          /\ ret.value = call.response.content[i]
          /\ call.response.content[i] # call.response.content[j]
          /\ SpecNormalize(ShortNameOf(call.response.content[j]))
                = LettersLower(call.query.s)
          /\ SpecNormalize(ShortNameOf(call.response.content[i]))
                = LettersLower(call.query.s)

C6_ZeroIsNotFound ==
    (Resolved /\ call.response.totalElements = 0) => ret.kind = "ValueError"

\* totalElements = 0 with a page whose first candidate matches the query
C6_Witness ==
    /\ Resolved
    /\ call.response.totalElements = 0
    /\ ~Falsy(call.query)
    /\ FirstEqual(call.response.content, LettersLower(call.query.s)) = 1
    /\ ret.kind = "ValueError"

----------------------------------------------------------------------------
(* The extractor applied to bounded payloads *)

Text2024 == <<"2", "0", "2", "4">>

Text2023 == <<"2", "0", "2", "3">>

\* period values: absent, null, numbers, texts that are years and that are not
PeriodPool ==
    {Missing, Null, FloatV, BoolV(TRUE), IntV(2024), IntV(Sentinel),
     IntV(Sentinel - 1), Str(Text2024), Str(Text2023), Str(<<"-", "1">>),
     Str(<<" ", "2", "0", "2", "5">>), Str(<<"x">>), Str(<<>>)}

DateText(y, m, d) == y \o <<"-">> \o m \o <<"-">> \o d

\* actualBfoDate values: absent, null, dates, texts that are no date
DatePool ==
    {Missing, Null, Str(<<>>), IntV(5),
     Str(DateText(Text2024, <<"2">>, <<"2", "9">>)),
     Str(DateText(<<"2", "0", "2", "5">>, <<"2">>, <<"2", "9">>)),
     Str(DateText(<<"2", "0", "2", "5">>, <<"0", "2">>, <<"1">>)),
     Str(DateText(Text2024, <<"1", "3">>, <<"1">>)),
     Str(Text2024 \o <<"-", "2">>),
     Str(DateText(<<"1">>, <<"1">>, <<"1">>))}

PeriodReports == {Report(p, Missing, Missing, TRUE) : p \in PeriodPool}

DatedReports ==
    {Report(p, d, Missing, TRUE) :
        p \in {Str(Text2024), Str(<<"x">>)}, d \in DatePool}

\* line-item values
NumPool ==
    {Missing, Null, Str(<<>>), Str(<<"5", "5", "0", "4", "9">>),
     Str(<<"a", "b", "c">>), IntV(5), BoolV(TRUE), FloatV, BigInt, ListV}

NumChars == {"1", "0", ".", "-", "a", " "}

FrA == FinancialResult(Str(<<"1">>), Str(<<>>))

FrB == FinancialResult(IntV(2), Null)

\* elements of typeCorrections: skipped ones, and corrections with and
\* without an integer version, two of each version
WrapperPool ==
    {Null, Wrapper(Null), Wrapper(Correction(Missing, Missing, FALSE))}
    \cup {Wrapper(Correction(v, fr, TRUE)) :
            v \in {Missing, Str(<<"1">>), IntV(-2), IntV(-1), IntV(0), IntV(1)},
            fr \in {FrA, FrB}}

\* reports for extract: every period with typeCorrections absent, null,
\* empty, or holding one correction with every pair of line items
ExtractReports ==
    {Report(Missing, Missing, Missing, FALSE)}
    \cup {Report(p, Missing, c, TRUE) :
            p \in {Missing, Null, IntV(2023), Str(Text2024), Str(<<"x">>)},
            c \in {Missing, Null, Arr(<<>>),
                   Arr(<<Wrapper(Correction(IntV(0), Missing, TRUE))>>)}
                  \cup {Arr(<<Wrapper(Correction(IntV(0),
                                      FinancialResult(a, b), TRUE))>>) :
                            a \in NumPool, b \in NumPool}}

\* what extract's payload holds beside the report under study
OlderReports ==
    {<<>>,
     <<Report(Str(<<"1", "9", "9", "9">>), Missing, Arr(<<Wrapper(
           Correction(IntV(0), FrB, TRUE))>>), TRUE)>>,
     <<Report(Str(<<"y">>), Missing, Missing, TRUE)>>}

ExtractInit ==
    /\ now = 0
    /\ GateInit
    /\ ret = Pending
    /\ \/ \E rs \in Texts(PeriodReports, MaxReports), b \in BOOLEAN :
            call = [fn |-> "_latest_report", reports |-> Arr(rs),
                    prefer_bfo_date |-> b]
       \/ \E rs \in Texts(DatedReports, MaxReports) :
            call = [fn |-> "_latest_report", reports |-> Arr(rs),
                    prefer_bfo_date |-> TRUE]
       \/ call = [fn |-> "_latest_report", reports |-> Null,
                  prefer_bfo_date |-> FALSE]
       \/ \E tcs \in {Null} \cup {Arr(s) : s \in Texts(WrapperPool, MaxCorrections)} :
            call = [fn |-> "_best_correction", type_corrections |-> tcs]
       \/ \E v \in NumPool \cup {Str(s) : s \in Texts(NumChars, MaxLen)} :
            call = [fn |-> "_to_num", v |-> v]
       \/ \E r \in ExtractReports, o \in OlderReports, b \in BOOLEAN :
            call = [fn |-> "extract_last_year_revenue_profit",
                    payload |-> Arr(o \o <<r>>), prefer_bfo_date |-> b]

LatestReport ==
    /\ call.fn = "_latest_report"
    /\ ret = Pending
    /\ ret' = [kind |-> "return",
               value |-> _latest_report(call.reports, call.prefer_bfo_date)]
    /\ UNCHANGED <<gate_vars, call>>

BestCorrection ==
    /\ call.fn = "_best_correction"
    /\ ret = Pending
    /\ ret' = [kind |-> "return", value |-> _best_correction(call.type_corrections)]
    /\ UNCHANGED <<gate_vars, call>>

ToNum ==
    /\ call.fn = "_to_num"
    /\ ret = Pending
    /\ ret' = _to_num(call.v)
    /\ UNCHANGED <<gate_vars, call>>

Extract ==
    /\ call.fn = "extract_last_year_revenue_profit"
    /\ ret = Pending
    /\ ret' = extract_last_year_revenue_profit(call.payload, call.prefer_bfo_date)
    /\ UNCHANGED <<gate_vars, call>>

ExtractNext == LatestReport \/ BestCorrection \/ ToNum \/ Extract

SpecExtract == ExtractInit /\ [][ExtractNext]_vars

----------------------------------------------------------------------------
(* Claims about the extractor *)

Extracted == call.fn = "extract_last_year_revenue_profit" /\ ret # Pending

\* the period of report r reads as an integer
Parseable(r) == PeriodInt(r, Str(<<"0">>)).ok

YearOf(r) == PeriodInt(r, Str(<<"0">>)).v

\* C3: for a non-empty payload whose latest report has a period that does
\* not read as an integer, extract_last_year_revenue_profit returns a
\* triple with year 0 and raises nothing.
C3_MalformedPeriodYearZero ==
    (/\ Extracted
     /\ ItemsOf(call.payload) # <<>>
     /\ ~Parseable(_latest_report(call.payload, call.prefer_bfo_date)))
    => /\ ret.kind = "return"
       /\ ret.value # Null
       /\ ret.value.year = 0

BestChosen == call.fn = "_best_correction" /\ ret # Pending

\* the corrections of the elements of tcs that are not skipped, in order
RECURSIVE KeptCorrections(_)
KeptCorrections(tcs) ==
    IF tcs = <<>> THEN <<>>
    ELSE (IF NoCorrection(CorrectionOf(Head(tcs))) THEN <<>>
          ELSE <<CorrectionOf(Head(tcs))>>) \o KeptCorrections(Tail(tcs))

\* C8: _best_correction skips the entries without a correction; when some
\* remaining entry has an integer correctionVersion the result has the
\* highest such version; an entry without an integer version is returned
\* only if no entry has one, and then it is the first; absent input or only
\* skipped entries give None.
C8_HighestVersionWins ==
    BestChosen =>
        LET kept == KeptCorrections(ItemsOf(call.type_corrections))
            versioned == {i \in 1..Len(kept) : IsInt(kept[i].correctionVersion)}
        IN  /\ kept = <<>> => ret.value = Null
            /\ versioned # {} =>
                  /\ ret.value # Null
                  /\ IsInt(ret.value.correctionVersion)
                  /\ \A i \in versioned :
                        IntOf(kept[i].correctionVersion)
                            <= IntOf(ret.value.correctionVersion)
            /\ (kept # <<>> /\ versioned = {}) => ret.value = kept[1]

LatestChosen == call.fn = "_latest_report" /\ ret # Pending

\* the filing date of report r, the minimum date when it has none
FilingDate(r) ==
    IF _to_date(r.actualBfoDate) = NoDate THEN DateMin ELSE _to_date(r.actualBfoDate)

\* report a is below report b by year, where an unparsable period is below
\* every parseable one
BelowByYear(a, b) ==
    \/ ~Parseable(a) /\ Parseable(b)
    \/ Parseable(a) /\ Parseable(b) /\ YearOf(a) < YearOf(b)

\* report a is below report b in the order C9 describes
BelowAsClaimed(a, b, prefer_bfo_date) ==
    IF prefer_bfo_date
    THEN \/ DateLess(FilingDate(a), FilingDate(b))
         \/ FilingDate(a) = FilingDate(b) /\ BelowByYear(a, b)
    ELSE BelowByYear(a, b)

\* C9 as stated: None for an empty sequence, otherwise an element that no
\* element is above, an unparsable period never beating a parseable one.
C9_UnparsableNeverBeatsParseable ==
    LatestChosen =>
        LET reps == ItemsOf(call.reports)
        IN  /\ reps = <<>> => ret.value = Null
            /\ reps # <<>> =>
                  \E i \in 1..Len(reps) :
                     /\ ret.value = reps[i]
                     /\ \A j \in 1..Len(reps) :
                           ~BelowAsClaimed(reps[i], reps[j], call.prefer_bfo_date)

\* the year key with the sentinel of the code for an unparsable period
YearKey(r) == IF Parseable(r) THEN YearOf(r) ELSE -1000000000

\* report a is below report b by (filing date, year key) or by year key
BelowByKey(a, b, prefer_bfo_date) ==
    IF prefer_bfo_date
    THEN \/ DateLess(FilingDate(a), FilingDate(b))
         \/ FilingDate(a) = FilingDate(b) /\ YearKey(a) < YearKey(b)
    ELSE YearKey(a) < YearKey(b)

\* C9 amended: None for an empty sequence, otherwise the first element of
\* the sequence whose key is maximal, the key being the year of period (an
\* unparsable period counting as -10^9, so that it loses to every year
\* above -10^9 only) or, with prefer_bfo_date, the pair (filing date, year
\* key), a missing or unparsable date counting as date.min.
C9_FirstMaximalKey ==
    LatestChosen =>
        LET reps == ItemsOf(call.reports)
        IN  /\ reps = <<>> => ret.value = Null
            /\ reps # <<>> =>
                  \E i \in 1..Len(reps) :
                     /\ ret.value = reps[i]
                     /\ \A j \in 1..Len(reps) :
                           ~BelowByKey(reps[i], reps[j], call.prefer_bfo_date)
                     /\ \A j \in 1..(i - 1) :
                           BelowByKey(reps[j], reps[i], call.prefer_bfo_date)

\* by filing date: the chosen report is not the first, has an unparsable
\* period and a date that beats an earlier report of a later year
C9_Witness ==
    /\ LatestChosen
    /\ call.prefer_bfo_date
    /\ Len(ItemsOf(call.reports)) >= 3
    /\ ret.value # ItemsOf(call.reports)[1]
    /\ ~Parseable(ret.value)
    /\ Parseable(ItemsOf(call.reports)[1])
    /\ DateLess(DateMin, FilingDate(ItemsOf(call.reports)[1]))
    /\ DateLess(FilingDate(ItemsOf(call.reports)[1]), FilingDate(ret.value))

NumCalled == call.fn = "_to_num" /\ ret # Pending

IsNum(x) == x.t = "num"

\* C10: _to_num raises nothing; "" and null give None, a number gives a
\* number, a text gives the number it writes or None, any other value gives
\* None; so revenue and profit of a returned triple are numbers or None.
C10_ToNumNeverRaises ==
    /\ NumCalled =>
          /\ ret.kind = "return"
          /\ (call.v.t \in {"null", "missing"} \/ call.v = Str(<<>>))
                => ret.value = Null
          /\ call.v.t \in {"int", "float", "bigint", "bool"} => IsNum(ret.value)
          /\ (call.v.t = "str" /\ call.v # Str(<<>>))
                => ret.value = (IF PyFloat(call.v.s).ok THEN PyFloat(call.v.s).v
                                ELSE Null)
          /\ call.v.t = "list" => ret.value = Null
    /\ (Extracted /\ ret.kind = "return" /\ ret.value # Null) =>
          /\ IsNum(ret.value.revenue) \/ ret.value.revenue = Null
          /\ IsNum(ret.value.profit) \/ ret.value.profit = Null

----------------------------------------------------------------------------
(* Claims about the gate and the two-step operations *)

\* C1: at no time are two outbound requests (client.get issued and not yet
\* returned) of one client pending at once.
C1_AtMostOneInFlight == Cardinality({i \in Tasks : InFlight(i)}) <= 1

\* task i passes the gate in this step
Passes(i) == frame'[i].passes = frame[i].passes + 1

\* C2: the timestamp a pass through the gate records is at least the one the
\* pass before it recorded plus min_delay, and plus the whole delay drawn
\* for the pass when the pass had to sleep, whatever the interleaving of
\* the tasks.
C2_MinimumSpacing ==
    [][\A i \in Tasks :
          Passes(i) =>
             /\ last_request_time' = now
             /\ last_request_time' >= last_request_time + MinDelay
             /\ pc[i] = "sleeping" =>
                   /\ frame[i].delay \in MinDelay..MaxDelay
                   /\ last_request_time' >= last_request_time + frame[i].delay]_vars

\* a task sent its request while another one slept in the gate for the rest
\* of its delay; the sleep is over and the request is still pending
C2_Witness ==
    \E i, j \in Tasks :
       /\ i # j
       /\ pc[j] = "search_request"
       /\ frame[j].passes = 1
       /\ pc[i] = "sleeping"
       /\ last_request_time > 0
       /\ frame[i].wake = last_request_time + frame[i].delay
       /\ now = frame[i].wake

TwoStep(i) == op[i] \in {"fetch_bfo", "get_last_year_revenue_profit"}

\* the search of task i returned and resolved to an organization with an id
SearchResolved(i) ==
    /\ search_response[i].status = "ok"
    /\ LET r == resolve_org_from_search(search_response[i].body, TaskQuery)
       IN  /\ r.kind = "return"
           /\ r.value.id # Null
           /\ r.value.id # Missing

\* C7: in fetch_bfo and get_last_year_revenue_profit the report request and
\* the second pass through the gate happen only after the search returned
\* and resolved to an organization with a non-null id; a call whose search
\* or resolution failed ends after one pass with that failure.
C7_NoFetchWithoutOrganization ==
    \A i \in Tasks :
       /\ (frame[i].phase = "bfo" \/ frame[i].passes >= 2
              \/ pc[i] = "bfo_request") => (TwoStep(i) /\ SearchResolved(i))
       /\ (TwoStep(i) /\ pc[i] = "done" /\ ~SearchResolved(i)) =>
             /\ frame[i].passes = 1
             /\ outcome[i].kind \in {"HTTPStatusError", "ValueError",
                                     "AmbiguousSearchError"}

\* one two-step call ended because the resolved record has no id, after one
\* pass, while another one is in its report request
C7_Witness ==
    \E i, j \in Tasks :
       /\ TwoStep(i) /\ pc[i] = "done"
       /\ outcome[i] = [kind |-> "ValueError", msg |-> "Organization ID not found"]
       /\ frame[i].passes = 1
       /\ TwoStep(j) /\ pc[j] = "bfo_request"
       /\ frame[j].passes = 2

\* task i is inside _wait_for_delay: queued for the lock, or asleep with it
InGate(i) == pc[i] \in {"waiting_lock", "sleeping"}

\* C11: under fair scheduling and finite sleeps every call of _wait_for_delay
\* passes the gate (its pass is counted and its request issued), and every
\* holder of the lock releases it: no caller is blocked or starved.
C11_EveryCallerPasses ==
    /\ \A i \in Tasks : \A n \in 0..(MaxCalls - 1) :
          (InGate(i) /\ frame[i].passes = n) ~>
             (InFlight(i) /\ frame[i].passes = n + 1)
    /\ \A i \in Tasks : (lock_owner = i) ~> (lock_owner # i)

\* a task that passed the gate once has called again and queues behind a
\* task that sleeps with the lock
C11_Witness ==
    \E i, j \in Tasks :
       /\ i # j
       /\ pc[i] = "sleeping" /\ lock_owner = i /\ now < frame[i].wake
       /\ pc[j] = "waiting_lock" /\ lock_waiters = <<j>>
       /\ frame[j].passes = 1 /\ frame[i].passes = 1

====
